---------------------------- MODULE Spec2Model ----------------------------
(***************************************************************************)
(* Model of app.py, the electricity usage dashboard.  The script is re-run *)
(* from top to bottom on every user interaction (file upload, edit of a    *)
(* tariff number input); each action below is one interaction followed by  *)
(* the whole re-run.                                                       *)
(*                                                                         *)
(* Numbers: the script computes in float64.  The model computes in exact   *)
(* rationals <<numerator, denominator>> kept in lowest terms; float        *)
(* rounding is not modelled.  A float64 division by zero gives inf/nan in  *)
(* numpy; the model has one value NonFinite for those.                     *)
(* Dates are day offsets from 01/01/2024 (day 0).                          *)
(***************************************************************************)
EXTENDS Integers, Sequences, FiniteSets, TLC

(***************************************************************************)
(* Bounds of the model.                                                    *)
(***************************************************************************)
MaxRows == 6        \* rows of an uploaded CSV file
MaxEdits == 1       \* tariff edits in one session

(***************************************************************************)
(* Exact rational arithmetic standing in for float64.                      *)
(***************************************************************************)
Abs(x) == IF x < 0 THEN -x ELSE x

RECURSIVE GCD(_, _)
GCD(a, b) == IF b = 0 THEN a ELSE GCD(b, a % b)

NonFinite == [n |-> 0, d |-> 0]

Rat(num, den) ==
    IF den = 0 THEN NonFinite
    ELSE LET g == GCD(Abs(num), Abs(den))
             s == IF den < 0 THEN -1 ELSE 1
         IN  [n |-> (s * num) \div g, d |-> (s * den) \div g]

Num(i) == [n |-> i, d |-> 1]
Zero == Num(0)

IsFinite(x) == x.d # 0

RAdd(x, y) == IF IsFinite(x) /\ IsFinite(y)
              THEN Rat(x.n * y.d + y.n * x.d, x.d * y.d) ELSE NonFinite
RNeg(x) == IF IsFinite(x) THEN [n |-> -x.n, d |-> x.d] ELSE NonFinite
RSub(x, y) == RAdd(x, RNeg(y))
RMul(x, y) == IF IsFinite(x) /\ IsFinite(y)
              THEN Rat(x.n * y.n, x.d * y.d) ELSE NonFinite
\* float64 "/" : a zero divisor gives inf or nan, never a quotient
RDiv(x, y) == IF IsFinite(x) /\ IsFinite(y) /\ y.n # 0
              THEN Rat(x.n * y.d, x.d * y.n) ELSE NonFinite

\* the sum of a sequence; exact addition is associative, so the halves are
\* summed separately to keep the evaluation shallow
RECURSIVE RSum(_)
RSum(s) ==
    IF s = <<>> THEN Zero
    ELSE IF Len(s) = 1 THEN s[1]
    ELSE LET h == Len(s) \div 2
         IN  RAdd(RSum(SubSeq(s, 1, h)), RSum(SubSeq(s, h + 1, Len(s))))

(***************************************************************************)
(* Calendar of 2024: the month (1..12) of a day offset, as                 *)
(* dt.to_period('M') groups the dates.                                     *)
(***************************************************************************)
MonthLengths == <<31, 29, 31, 30, 31, 30, 31, 31, 30, 31, 30, 31>>

RECURSIVE MonthFrom(_, _)
MonthFrom(day, m) ==
    IF m = 12 \/ day < MonthLengths[m] THEN m
    ELSE MonthFrom(day - MonthLengths[m], m + 1)

YearMonth(day) == MonthFrom(day, 1)


(***************************************************************************)
(* Input data.  A CSV row after load_data's cleaning: its line number in   *)
(* the file, its date, its type and its (whole-number) meter reading.      *)
(* Uploaded files are the non-empty subsets of RowPool of at most MaxRows  *)
(* rows (a file without rows makes the script stop at line 49, before any  *)
(* of the code modelled here).                                             *)
(***************************************************************************)
Types == {"anytime", "controlled load", "solar"}
TypeOrder == <<"anytime", "controlled load", "solar">>  \* string order

Row(id, date, type, reading) ==
    [id |-> id, Date |-> date, Type |-> type, Reading |-> reading]

RowPool ==
    { Row(1, 0, "anytime", 1000),          \* 01/01/2024
      Row(2, 30, "anytime", 1300),         \* 31/01/2024
      Row(3, 30, "anytime", 1310),         \* same date, another value
      Row(4, 33, "anytime", 1330),         \* 03/02/2024
      Row(5, 28, "controlled load", 500),
      Row(6, 31, "controlled load", 509),  \* 01/02/2024
      Row(7, 10, "solar", 200),
      Row(8, 20, "solar", 230) }

Files == { f \in SUBSET RowPool : f # {} /\ Cardinality(f) <= MaxRows }

\* All orders of the rows S that are ascending by Date.  sort_values uses
\* quicksort, which is not stable: rows with equal dates come in any order.
RECURSIVE sort_values(_)
sort_values(S) ==
    IF S = {} THEN {<<>>}
    ELSE UNION { { <<r>> \o s : s \in sort_values(S \ {r}) } :
                 r \in { r \in S : \A q \in S : r.Date <= q.Date } }

load_data(file) == sort_values(file)

SeqToSet(s) == { s[i] : i \in 1..Len(s) }

\* df[df['Type'] == reading_type].sort_values('Date'): the possible results.
type_df_of(d, reading_type) ==
    sort_values({ r \in SeqToSet(d) : r.Type = reading_type })

\* df['Type'].unique(): the types in order of first appearance.
RECURSIVE unique(_)
unique(d) ==
    IF d = <<>> THEN <<>>
    ELSE LET rest == unique(SubSeq(d, 1, Len(d) - 1))
             t == d[Len(d)].Type
         IN  IF t \in SeqToSet(rest) THEN rest ELSE Append(rest, t)

RECURSIVE Flatten(_)
Flatten(ss) == IF ss = <<>> THEN <<>> ELSE Head(ss) \o Flatten(Tail(ss))

(***************************************************************************)
(* Tab 1: daily usage distributed across each day of a period.             *)
(***************************************************************************)
\* has_days, a span of no days let through
has_days_or_none(days_diff) == days_diff >= 0

\* line 101: the guard of the division
has_days(days_diff) == days_diff > 0

\* interval, dividing by the number of days from start to end inclusive
interval_inclusive(prev, next) ==
    LET days_diff == next.Date - prev.Date
        reading_diff == RSub(Num(next.Reading), Num(prev.Reading))
    IN  [start_date |-> prev.Date,
         days_diff |-> days_diff,
         reading_diff |-> reading_diff,
         divided |-> has_days(days_diff),
         daily_avg |-> IF has_days(days_diff)
                       THEN RDiv(reading_diff, Num(days_diff + 1)) ELSE Zero]

\* lines 97-101: the locals of one iteration of "for i in range(1, len(type_df))"
interval(prev, next) ==
    LET start_date == prev.Date
        end_date == next.Date
        days_diff == end_date - start_date
        reading_diff == RSub(Num(next.Reading), Num(prev.Reading))
    IN  [start_date |-> start_date,
         days_diff |-> days_diff,
         reading_diff |-> reading_diff,
         divided |-> has_days(days_diff),
         daily_avg |-> IF has_days(days_diff)
                       THEN RDiv(reading_diff, Num(days_diff)) ELSE Zero]

\* interval_points, the end date included
interval_points_to_end(reading_type, iv) ==
    [k \in 1..(iv.days_diff + 1) |->
        [Date |-> iv.start_date + (k - 1),
         Type |-> reading_type,
         Usage |-> iv.daily_avg]]

\* lines 104-110: one entry for each day of the period, the end date excluded
interval_points(reading_type, iv) ==
    [k \in 1..iv.days_diff |->
        [Date |-> iv.start_date + (k - 1),
         Type |-> reading_type,
         Usage |-> iv.daily_avg]]

\* lines 96-110 for one reading type
type_points(reading_type, tdf) ==
    Flatten([i \in 1..(Len(tdf) - 1) |->
                interval_points(reading_type, interval(tdf[i], tdf[i + 1]))])

\* lines 93-110
daily_usage(d, tdfs) ==
    LET ts == unique(d)
    IN  Flatten([j \in 1..Len(ts) |-> type_points(ts[j], tdfs[ts[j]])])

\* the zero divisors met by line 101 in one run
daily_avg_zero_div(tdfs) ==
    \E t \in Types : \E i \in 1..(Len(tdfs[t]) - 1) :
        LET iv == interval(tdfs[t][i], tdfs[t][i + 1])
        IN  iv.divided /\ iv.days_diff = 0

(***************************************************************************)
(* Tab 1: monthly totals, day counts and cost annotations.                 *)
(***************************************************************************)
\* merge without the key: every pair of a left and a right row
RECURSIVE merge_cross(_, _)
merge_cross(left, right) ==
    IF left = <<>> THEN <<>>
    ELSE [i \in 1..Len(right) |-> Head(left) @@ right[i]]
             \o merge_cross(Tail(left), right)

\* pandas merge(on='Month'): every pair of a left and a right row with the
\* same Month, in the order of the left rows
RECURSIVE merge(_, _)
merge(left, right) ==
    IF left = <<>> THEN <<>>
    ELSE LET l == Head(left)
             m == SelectSeq(right, LAMBDA r : r.Month = l.Month)
         IN  [i \in 1..Len(m) |-> l @@ m[i]] \o merge(Tail(left), right)

\* the elements of a set of numbers in ascending order
RECURSIVE Ascending(_)
Ascending(S) ==
    IF S = {} THEN <<>>
    ELSE LET x == CHOOSE y \in S : \A z \in S : y <= z
         IN  <<x>> \o Ascending(S \ {x})

\* the Year-Month column (line 116), in the order groupby sorts it
months_of(points) ==
    Ascending({ YearMonth(points[i].Date) : i \in 1..Len(points) })

\* line 119: groupby(['Year-Month', 'Type'])['Daily Usage (kWh)'].sum()
groupby_sum(points) ==
    LET months == months_of(points)
        group(m, t) == SelectSeq(points, LAMBDA p :
                           p.Type = t /\ YearMonth(p.Date) = m)
        month_rows(m) ==
            LET ts == SelectSeq(TypeOrder, LAMBDA t :
                          \E i \in 1..Len(points) :
                              points[i].Type = t /\ YearMonth(points[i].Date) = m)
            IN  [k \in 1..Len(ts) |->
                    [Month |-> m,
                     Type |-> ts[k],
                     Total |-> LET g == group(m, ts[k])
                               IN  RSum([j \in 1..Len(g) |-> g[j].Usage])]]
    IN  Flatten([i \in 1..Len(months) |-> month_rows(months[i])])

\* days_per_month, count() in place of nunique()
days_per_month_count(points) ==
    LET months == months_of(points)
        in_month(m) == SelectSeq(points, LAMBDA p : YearMonth(p.Date) = m)
    IN  [i \in 1..Len(months) |->
            [Month |-> months[i], Days |-> Len(in_month(months[i]))]]

\* line 127: groupby('Year-Month')['Date'].nunique()
days_per_month(points) ==
    LET months == months_of(points)
        dates(m) == { points[i].Date : i \in { j \in 1..Len(points) :
                                            YearMonth(points[j].Date) = m } }
    IN  [i \in 1..Len(months) |->
            [Month |-> months[i], Days |-> Cardinality(dates(months[i]))]]

\* lines 119-129: monthly_total before the costs are merged in
monthly_total_days(points) ==
    IF points = <<>> THEN <<>>
    ELSE merge(groupby_sum(points), days_per_month(points))

\* monthly_total['Month'].unique()
RECURSIVE unique_months(_)
unique_months(mt) ==
    IF mt = <<>> THEN <<>>
    ELSE LET rest == unique_months(SubSeq(mt, 1, Len(mt) - 1))
             m == mt[Len(mt)].Month
         IN  IF m \in SeqToSet(rest) THEN rest ELSE Append(rest, m)

\* month_data[month_data['Type'] == t]['Total Usage (kWh)'].sum()
usage_of(month_data, t) ==
    LET rows == SelectSeq(month_data, LAMBDA r : r.Type = t)
    IN  RSum([i \in 1..Len(rows) |-> rows[i].Total])

Hundred == Num(100)

\* month_cost, the rates taken as dollars per kWh
month_cost_no_cents(mt, month, plan) ==
    LET month_data == SelectSeq(mt, LAMBDA r : r.Month = month)
        days_in_month == month_data[1].Days
        anytime_usage == usage_of(month_data, "anytime")
        cl_usage == usage_of(month_data, "controlled load")
        solar_usage == usage_of(month_data, "solar")
        anytime_cost == RMul(anytime_usage, plan.anytime_rate)
        cl_cost == RMul(cl_usage, plan.controlled_load_rate)
        solar_credit == RMul(solar_usage, plan.solar_feed_in)
        supply_cost == RMul(RAdd(plan.supply_daily_charge,
                                 plan.controlled_load_supply_daily_charge),
                            Num(days_in_month))
        total_cost == RSub(RAdd(RAdd(anytime_cost, cl_cost), supply_cost),
                           solar_credit)
    IN  [Month |-> month,
         days_in_month |-> days_in_month,
         anytime_usage |-> anytime_usage,
         cl_usage |-> cl_usage,
         solar_usage |-> solar_usage,
         anytime_cost |-> anytime_cost,
         cl_cost |-> cl_cost,
         solar_credit |-> solar_credit,
         supply_cost |-> supply_cost,
         total_cost |-> total_cost]

\* lines 150-165: the locals of one iteration of the monthly_costs loop
month_cost(mt, month, plan) ==
    LET month_data == SelectSeq(mt, LAMBDA r : r.Month = month)
        days_in_month == month_data[1].Days
        anytime_usage == usage_of(month_data, "anytime")
        cl_usage == usage_of(month_data, "controlled load")
        solar_usage == usage_of(month_data, "solar")
        anytime_cost == RMul(anytime_usage, RDiv(plan.anytime_rate, Hundred))
        cl_cost == RMul(cl_usage, RDiv(plan.controlled_load_rate, Hundred))
        solar_credit == RMul(solar_usage, RDiv(plan.solar_feed_in, Hundred))
        supply_cost == RMul(RAdd(plan.supply_daily_charge,
                                 plan.controlled_load_supply_daily_charge),
                            Num(days_in_month))
        total_cost == RSub(RAdd(RAdd(anytime_cost, cl_cost), supply_cost),
                           solar_credit)
    IN  [Month |-> month,
         days_in_month |-> days_in_month,
         anytime_usage |-> anytime_usage,
         cl_usage |-> cl_usage,
         solar_usage |-> solar_usage,
         anytime_cost |-> anytime_cost,
         cl_cost |-> cl_cost,
         solar_credit |-> solar_credit,
         supply_cost |-> supply_cost,
         total_cost |-> total_cost]

\* lines 148-165: the loop's locals, one record for each month
monthly_locals(mt, plan) ==
    LET months == unique_months(mt)
    IN  [i \in 1..Len(months) |-> month_cost(mt, months[i], plan)]

\* the plan the monthly cost annotations are computed with (lines 159-162)
monthly_plan(loaded, inputs) == loaded

\* line 165, 167: monthly_costs_df
monthly_costs_of(locals) ==
    [i \in 1..Len(locals) |->
        [Month |-> locals[i].Month, Cost |-> locals[i].total_cost]]

(***************************************************************************)
(* Tab 2: annual cost estimation.                                          *)
(***************************************************************************)
None == [none |-> TRUE]

SetMin(S) == CHOOSE x \in S : \A y \in S : x <= y
SetMax(S) == CHOOSE x \in S : \A y \in S : x >= y

\* lines 220-222
days_in_data_of(d) ==
    LET dates == { d[i].Date : i \in 1..Len(d) }
    IN  SetMax(dates) - SetMin(dates)

\* no_span, the early return never taken
no_span_never(days_in_data) == FALSE

\* line 224: the early return
no_span(days_in_data) == days_in_data = 0

\* line 230: the types that get an annual usage
enough_readings(tdf) == Len(tdf) >= 2

\* line 234: the day count the total usage is divided by
annual_divisor(days_in_data, tdf) == days_in_data

\* lines 228-234
annual_usage_of(d, tdfs) ==
    LET ts == { t \in SeqToSet(unique(d)) : enough_readings(tdfs[t]) }
    IN  [t \in ts |->
            LET tdf == tdfs[t]
                total_usage == RSub(Num(tdf[Len(tdf)].Reading),
                                    Num(tdf[1].Reading))
            IN  RMul(RDiv(total_usage,
                          Num(annual_divisor(days_in_data_of(d), tdf))),
                     Num(365))]

\* annual_usage.get(t, 0)
get(annual_usage, t) ==
    IF t \in DOMAIN annual_usage THEN annual_usage[t] ELSE Zero

\* lines 218-254
calculate_annual_costs(d, tdfs, inputs) ==
    LET days_in_data == days_in_data_of(d)
    IN  IF no_span(days_in_data) THEN None
        ELSE
        LET annual_usage == annual_usage_of(d, tdfs)
            anytime_cost == RMul(get(annual_usage, "anytime"),
                                 RDiv(inputs.anytime_rate, Hundred))
            cl_cost == RMul(get(annual_usage, "controlled load"),
                            RDiv(inputs.controlled_load_rate, Hundred))
            solar_credit == RMul(get(annual_usage, "solar"),
                                 RDiv(inputs.solar_feed_in, Hundred))
            supply_cost == RMul(RAdd(inputs.supply_daily_charge,
                                     inputs.controlled_load_supply_daily_charge),
                                Num(365))
            total_cost == RSub(RAdd(RAdd(anytime_cost, cl_cost), supply_cost),
                               solar_credit)
        IN  [anytime_usage |-> get(annual_usage, "anytime"),
             cl_usage |-> get(annual_usage, "controlled load"),
             solar_usage |-> get(annual_usage, "solar"),
             anytime_cost |-> anytime_cost,
             cl_cost |-> cl_cost,
             solar_credit |-> solar_credit,
             supply_cost |-> supply_cost,
             total_cost |-> total_cost,
             days_in_data |-> days_in_data]

\* a zero divisor met by line 234 in one call
annual_zero_div(d, tdfs) ==
    /\ ~no_span(days_in_data_of(d))
    /\ \E t \in SeqToSet(unique(d)) :
          /\ enough_readings(tdfs[t])
          /\ annual_divisor(days_in_data_of(d), tdfs[t]) = 0

\* line 261: "if current_calc"
rendered(calc) == calc # None

\* lines 297-302: the figures of the "Difference" column.  A Python float
\* division by zero raises ZeroDivisionError and ends the run at that line;
\* the model records the quotient as NonFinite.
difference_of(current, comp) ==
    IF ~rendered(current) THEN [not_run |-> TRUE]
    ELSE LET savings == RSub(current.total_cost, comp.total_cost)
         IN  [savings |-> savings,
              monthly |-> RDiv(savings, Num(12)),
              percentage |-> RMul(RDiv(savings, current.total_cost), Num(100))]

\* a zero divisor met by line 302
percentage_zero_div(current) ==
    rendered(current) /\ current.total_cost = Zero

(***************************************************************************)
(* Tariff plans and the number inputs of tab 2.                            *)
(***************************************************************************)
Plan(a, c, s, d, cd) ==
    [anytime_rate |-> a, controlled_load_rate |-> c, solar_feed_in |-> s,
     supply_daily_charge |-> d, controlled_load_supply_daily_charge |-> cd]

\* lines 23-29: the values used when current_plan.json does not exist
DefaultPlan == Plan(Num(25), Num(18), Num(8), Rat(6, 5), Rat(1, 2))

\* lines 18-20: a current_plan.json
\* (of a household without a controlled load supply)
FilePlan == Plan(Num(30), Num(20), Num(5), Num(1), Num(0))

load_current_plan == {DefaultPlan, FilePlan}

\* lines 209-213: the initial values of the comparison plan's inputs
ComparisonDefaults == Plan(Num(23), Num(17), Num(10), Rat(11, 10), Rat(9, 20))

Fields == DOMAIN DefaultPlan

\* values a user types into a number input
EditPlan == Plan(Num(20), Num(15), Num(10), Num(0), Rat(2, 5))

InputValues(field) == {EditPlan[field]}

(***************************************************************************)
(* The session.                                                            *)
(***************************************************************************)
VARIABLES
    uploaded_file,     \* the rows of the uploaded CSV file, {} when none
    current_plan,      \* line 31
    current_inputs,    \* current_anytime, current_cl, ... (lines 201-205)
    comp_inputs,       \* comp_anytime, comp_cl, ... (lines 209-213)
    edits,             \* number of tariff edits made so far
    df,                \* line 47
    type_df,           \* type -> that type's rows as sorted at lines 95, 229
    daily_usage_data,  \* lines 93-110
    monthly_total,     \* lines 119-129, 168
    month_calc,        \* the locals of the loop of lines 149-165
    monthly_costs,     \* line 167
    current_calc,      \* line 256
    comp_calc,         \* line 258
    difference,        \* savings and percentage, lines 297-302
    zero_div           \* the divisions of the last run that had a zero divisor

vars == <<uploaded_file, current_plan, current_inputs, comp_inputs, edits, df,
          type_df, daily_usage_data, monthly_total, month_calc, monthly_costs,
          current_calc, comp_calc, difference, zero_div>>

NotRun == [not_run |-> TRUE]

\* the results of sorting each type's rows of d
type_dfs(d) ==
    { [t \in Types |-> CASE t = "anytime" -> a
                         [] t = "controlled load" -> c
                         [] OTHER -> s] :
        a \in type_df_of(d, "anytime"),
        c \in type_df_of(d, "controlled load"),
        s \in type_df_of(d, "solar") }

\* lines 46-47 false: nothing below "if uploaded_file is not None" runs
NoFileRun ==
    /\ df' = <<>>
    /\ type_df' = [t \in Types |-> <<>>]
    /\ daily_usage_data' = <<>>
    /\ monthly_total' = <<>>
    /\ month_calc' = <<>>
    /\ monthly_costs' = <<>>
    /\ current_calc' = NotRun
    /\ comp_calc' = NotRun
    /\ difference' = NotRun
    /\ zero_div' = {}

\* lines 47-259: one run of the script on the rows d, sorted per type as tdfs
Run(d, tdfs, loaded, cur, comp) ==
    LET points == daily_usage(d, tdfs)
        mt == monthly_total_days(points)
        locals == monthly_locals(mt, monthly_plan(loaded, cur))
        costs == monthly_costs_of(locals)
    IN  /\ df' = d
        /\ type_df' = tdfs
        /\ daily_usage_data' = points
        /\ month_calc' = locals
        /\ monthly_costs' = costs
        /\ monthly_total' = merge(mt, costs)
        /\ current_calc' = calculate_annual_costs(d, tdfs, cur)
        /\ comp_calc' = calculate_annual_costs(d, tdfs, comp)
        /\ difference' = difference_of(calculate_annual_costs(d, tdfs, cur),
                                       calculate_annual_costs(d, tdfs, comp))
        /\ zero_div' = (IF daily_avg_zero_div(tdfs) THEN {"daily_avg"} ELSE {})
                       \cup
                       (IF annual_zero_div(d, tdfs) THEN {"annual_usage"} ELSE {})
                       \cup
                       (IF percentage_zero_div(calculate_annual_costs(d, tdfs, cur))
                        THEN {"percentage"} ELSE {})

Init ==
    /\ uploaded_file = {}
    /\ current_plan \in load_current_plan
    /\ current_inputs = current_plan
    /\ comp_inputs = ComparisonDefaults
    /\ edits = 0
    /\ df = <<>>
    /\ type_df = [t \in Types |-> <<>>]
    /\ daily_usage_data = <<>>
    /\ monthly_total = <<>>
    /\ month_calc = <<>>
    /\ monthly_costs = <<>>
    /\ current_calc = NotRun
    /\ comp_calc = NotRun
    /\ difference = NotRun
    /\ zero_div = {}

\* the user uploads a CSV file (line 44); the script runs
Upload ==
    /\ uploaded_file = {}
    /\ \E file \in Files :
          /\ uploaded_file' = file
          /\ \E d \in load_data(file) : \E tdfs \in type_dfs(d) :
                Run(d, tdfs, current_plan, current_inputs, comp_inputs)
    /\ UNCHANGED <<current_plan, current_inputs, comp_inputs, edits>>

\* the user removes the file; the number inputs are not rendered and lose
\* their values
RemoveFile ==
    /\ uploaded_file # {}
    /\ uploaded_file' = {}
    /\ current_inputs' = current_plan
    /\ comp_inputs' = ComparisonDefaults
    /\ NoFileRun
    /\ UNCHANGED <<current_plan, edits>>

\* the user edits a number input of the current plan (lines 201-205)
EditCurrent ==
    /\ uploaded_file # {}
    /\ edits < MaxEdits
    /\ \E field \in Fields : \E v \in InputValues(field) :
          /\ v # current_inputs[field]
          /\ current_inputs' = [current_inputs EXCEPT ![field] = v]
          /\ Run(df, type_df, current_plan, current_inputs', comp_inputs)
    /\ edits' = edits + 1
    /\ UNCHANGED <<uploaded_file, current_plan, comp_inputs>>

\* the user edits a number input of the comparison plan (lines 209-213)
EditComp ==
    /\ uploaded_file # {}
    /\ edits < MaxEdits
    /\ \E field \in Fields : \E v \in InputValues(field) :
          /\ v # comp_inputs[field]
          /\ comp_inputs' = [comp_inputs EXCEPT ![field] = v]
          /\ Run(df, type_df, current_plan, current_inputs, comp_inputs')
    /\ edits' = edits + 1
    /\ UNCHANGED <<uploaded_file, current_plan, current_inputs>>

Next == Upload \/ RemoveFile \/ EditCurrent \/ EditComp

Spec == Init /\ [][Next]_vars

(***************************************************************************)
(* Vocabulary of the properties.                                           *)
(***************************************************************************)
\* the daily usage points of one reading type, in the order emitted
PointsOf(t) == SelectSeq(daily_usage_data, LAMBDA p : p.Type = t)

\* the points of type t dated in [d1, d2)
PointsIn(t, d1, d2) ==
    SelectSeq(daily_usage_data, LAMBDA p : p.Type = t /\ d1 <= p.Date /\ p.Date < d2)

Usages(ps) == [k \in 1..Len(ps) |-> ps[k].Usage]

\* the uploaded rows of one type, and their first and last dates
FileRows(t) == { r \in uploaded_file : r.Type = t }
first_date(t) == SetMin({ r.Date : r \in FileRows(t) })
last_date(t) == SetMax({ r.Date : r \in FileRows(t) })

\* the consecutive pairs of a type's sorted readings
Pairs(t) == 1..(Len(type_df[t]) - 1)

\* every day a point of the model can be dated on
Days == 0..(SetMax({ r.Date : r \in RowPool }) + 1)

(***************************************************************************)
(* C1: for two consecutive readings of a type with dates d1 < d2 and       *)
(* values v1 <= v2, the points emitted for the days in [d1, d2) all carry  *)
(* the value (v2 - v1) / (d2 - d1).days and sum to exactly v2 - v1.        *)
(***************************************************************************)
C1_Conservation ==
    \A t \in Types : \A i \in Pairs(t) :
        LET a == type_df[t][i]
            b == type_df[t][i + 1]
            ps == PointsIn(t, a.Date, b.Date)
        IN  (a.Date < b.Date /\ a.Reading <= b.Reading) =>
               /\ ps # <<>>
               /\ \A k \in 1..Len(ps) :
                     ps[k].Usage = Rat(b.Reading - a.Reading, b.Date - a.Date)
               /\ RSum(Usages(ps)) = Num(b.Reading - a.Reading)

\* a pair three days apart whose delta of 20 is spread as 20/3 a day
C1_Witness ==
    \E t \in Types : \E i \in Pairs(t) :
        LET a == type_df[t][i]
            b == type_df[t][i + 1]
            ps == PointsIn(t, a.Date, b.Date)
        IN  /\ b.Date - a.Date = 3
            /\ b.Reading - a.Reading = 20
            /\ Len(ps) = 3
            /\ ps[1].Usage = Rat(20, 3)

(***************************************************************************)
(* C2: a type with at least two readings has exactly one point for each    *)
(* day d with first_date <= d < last_date and no point for last_date or    *)
(* any other day; a type with fewer than two readings has no points.  The  *)
(* rows may come in any order and several may share a date.                *)
(***************************************************************************)
C2_Coverage ==
    \A t \in Types :
        LET ps == PointsOf(t)
            count(d) == Cardinality({ k \in 1..Len(ps) : ps[k].Date = d })
        IN  IF Cardinality(FileRows(t)) >= 2
            THEN /\ \A d \in Days :
                       count(d) = IF first_date(t) <= d /\ d < last_date(t)
                                  THEN 1 ELSE 0
                 /\ Len(ps) = last_date(t) - first_date(t)
            ELSE ps = <<>>

\* three or more readings of a type, two of them on one date, with points
C2_Witness ==
    \E t \in Types :
        /\ Cardinality(FileRows(t)) >= 3
        /\ \E r, q \in FileRows(t) : r # q /\ r.Date = q.Date
        /\ PointsOf(t) # <<>>
        /\ \E u \in Types : u # t /\ Cardinality(FileRows(u)) = 1

(***************************************************************************)
(* C3: for every reading type with at least two readings the annual usage  *)
(* reported by calculate_annual_costs is (last reading - first reading) /  *)
(* (days between that type's first and last reading) * 365; a type with    *)
(* fewer than two readings is reported with annual usage 0.                *)
(***************************************************************************)
Reported(calc, t) ==
    CASE t = "anytime" -> calc.anytime_usage
      [] t = "controlled load" -> calc.cl_usage
      [] OTHER -> calc.solar_usage

HasResult(calc) == calc # NotRun /\ calc # None

C3_AnnualProjection ==
    HasResult(current_calc) =>
        \A t \in Types :
            LET tdf == type_df[t]
                first == tdf[1]
                last == tdf[Len(tdf)]
            IN  IF Len(tdf) >= 2
                THEN last.Date > first.Date =>
                        Reported(current_calc, t) =
                            RMul(Rat(last.Reading - first.Reading,
                                     last.Date - first.Date), Num(365))
                ELSE Reported(current_calc, t) = Zero

(***************************************************************************)
(* C4: in the monthly cost computation (day_count = the month's recorded   *)
(* day count) and in calculate_annual_costs (day_count = 365),             *)
(* total_cost = anytime_usage*anytime_rate/100                             *)
(*            + controlled_load_usage*controlled_load_rate/100             *)
(*            + (supply_daily_charge + controlled_load_supply_daily_charge)*)
(*              * day_count                                                *)
(*            - solar_usage*solar_feed_in/100;                             *)
(* with all usages zero total_cost is supply_cost alone; and usage 300 at  *)
(* rate 25.0 with daily charges 1.20 and 0.50 over 30 days gives supply    *)
(* cost 51.0, anytime cost 75.0 and total cost 126.0.                      *)
(***************************************************************************)
ClaimedCost(au, cu, su, plan, day_count) ==
    RSub(RAdd(RAdd(RDiv(RMul(au, plan.anytime_rate), Num(100)),
                   RDiv(RMul(cu, plan.controlled_load_rate), Num(100))),
              RMul(RAdd(plan.supply_daily_charge,
                        plan.controlled_load_supply_daily_charge),
                   Num(day_count))),
         RDiv(RMul(su, plan.solar_feed_in), Num(100)))

\* the rows of monthly_total of one month, and a type's usage among them
MonthRows(m) == SelectSeq(monthly_total, LAMBDA r : r.Month = m)
MonthUsage(m, t) ==
    LET rows == SelectSeq(monthly_total, LAMBDA r : r.Month = m /\ r.Type = t)
    IN  RSum([i \in 1..Len(rows) |-> rows[i].Total])

IsExampleMonth(c) ==
    /\ MonthUsage(c.Month, "anytime") = Num(300)
    /\ MonthUsage(c.Month, "controlled load") = Zero
    /\ MonthUsage(c.Month, "solar") = Zero
    /\ MonthRows(c.Month)[1].Days = 30
    /\ current_plan.anytime_rate = Num(25)
    /\ current_plan.supply_daily_charge = Rat(120, 100)
    /\ current_plan.controlled_load_supply_daily_charge = Rat(50, 100)

AnnualCostClaim(calc, inputs) ==
    HasResult(calc) =>
        /\ calc.total_cost =
              ClaimedCost(calc.anytime_usage, calc.cl_usage, calc.solar_usage,
                          inputs, 365)
        /\ (calc.anytime_usage = Zero /\ calc.cl_usage = Zero
                /\ calc.solar_usage = Zero) =>
              /\ calc.total_cost = calc.supply_cost
              /\ calc.supply_cost =
                    RMul(RAdd(inputs.supply_daily_charge,
                              inputs.controlled_load_supply_daily_charge),
                         Num(365))

C4_CostFormula ==
    /\ \A i \in 1..Len(month_calc) :
          LET c == month_calc[i]
              m == c.Month
          IN  /\ c.total_cost =
                    ClaimedCost(MonthUsage(m, "anytime"),
                                MonthUsage(m, "controlled load"),
                                MonthUsage(m, "solar"),
                                current_plan, MonthRows(m)[1].Days)
              /\ monthly_costs[i] = [Month |-> m, Cost |-> c.total_cost]
              /\ \A k \in 1..Len(MonthRows(m)) :
                    MonthRows(m)[k].Cost = c.total_cost
              /\ IsExampleMonth(c) =>
                    /\ c.supply_cost = Num(51)
                    /\ c.anytime_cost = Num(75)
                    /\ c.total_cost = Num(126)
    /\ AnnualCostClaim(current_calc, current_inputs)
    /\ AnnualCostClaim(comp_calc, comp_inputs)

\* the example month has been costed, next to an annual result
C4_Witness ==
    /\ \E i \in 1..Len(month_calc) :
          IsExampleMonth(month_calc[i]) /\ month_calc[i].total_cost = Num(126)
    /\ HasResult(current_calc)
    /\ HasResult(comp_calc)

(***************************************************************************)
(* C5: monthly_total, after its merges with the day counts and the costs,  *)
(* has exactly one row for each (month, type) pair; each daily point is    *)
(* counted in exactly the one month containing its date; and for every     *)
(* type the monthly totals summed over all months equal the sum of all     *)
(* daily usage points of that type.                                        *)
(***************************************************************************)
C5_AggregationConsistency ==
    /\ \A i, j \in 1..Len(monthly_total) :
          (monthly_total[i].Month = monthly_total[j].Month
              /\ monthly_total[i].Type = monthly_total[j].Type) => i = j
    /\ \A i \in 1..Len(monthly_total) :
          LET r == monthly_total[i]
              ps == SelectSeq(daily_usage_data, LAMBDA p :
                        p.Type = r.Type /\ YearMonth(p.Date) = r.Month)
          IN  ps # <<>> /\ r.Total = RSum(Usages(ps))
    /\ \A k \in 1..Len(daily_usage_data) :
          LET p == daily_usage_data[k]
          IN  Cardinality({ i \in 1..Len(monthly_total) :
                              /\ monthly_total[i].Type = p.Type
                              /\ monthly_total[i].Month = YearMonth(p.Date) }) = 1
    /\ \A t \in Types :
          LET rows == SelectSeq(monthly_total, LAMBDA r : r.Type = t)
          IN  RSum([i \in 1..Len(rows) |-> rows[i].Total]) = RSum(Usages(PointsOf(t)))

\* a type with totals in two months, one of them shared with another type
C5_Witness ==
    \E i, j, k \in 1..Len(monthly_total) :
        /\ monthly_total[i].Type = monthly_total[j].Type
        /\ monthly_total[i].Month # monthly_total[j].Month
        /\ monthly_total[k].Month = monthly_total[i].Month
        /\ monthly_total[k].Type # monthly_total[i].Type

(***************************************************************************)
(* C6: a consecutive pair of readings of a type that share a date,         *)
(* whatever their values, causes no division by zero and contributes       *)
(* nothing to any daily or monthly total, and the pairs before and after   *)
(* it are interpolated normally.                                           *)
(***************************************************************************)
SameDate(t, i) == type_df[t][i].Date = type_df[t][i + 1].Date

\* the deltas of the pairs of a type that span at least one day
SpanDeltas(t) ==
    LET is == SelectSeq([i \in Pairs(t) |-> i], LAMBDA i : ~SameDate(t, i))
    IN  [k \in 1..Len(is) |->
            Num(type_df[t][is[k] + 1].Reading - type_df[t][is[k]].Reading)]

TypeMonthlyTotal(t) ==
    LET rows == SelectSeq(monthly_total, LAMBDA r : r.Type = t)
    IN  RSum([i \in 1..Len(rows) |-> rows[i].Total])

C6_ZeroSpan ==
    /\ "daily_avg" \notin zero_div
    /\ \A t \in Types :
          (\E i \in Pairs(t) : SameDate(t, i)) =>
             /\ \A k \in 1..Len(PointsOf(t)) : IsFinite(PointsOf(t)[k].Usage)
             /\ RSum(Usages(PointsOf(t))) = RSum(SpanDeltas(t))
             /\ TypeMonthlyTotal(t) = RSum(SpanDeltas(t))
             /\ \A i \in Pairs(t) :
                   LET a == type_df[t][i]
                       b == type_df[t][i + 1]
                       ps == PointsIn(t, a.Date, b.Date)
                   IN  /\ Len(ps) = b.Date - a.Date
                       /\ \A k \in 1..Len(ps) :
                             ps[k].Usage =
                                 Rat(b.Reading - a.Reading, b.Date - a.Date)

\* a same-date pair of differing values between two pairs that span days
C6_Witness ==
    \E t \in Types : \E i \in Pairs(t) :
        /\ SameDate(t, i)
        /\ type_df[t][i].Reading # type_df[t][i + 1].Reading
        /\ i - 1 \in Pairs(t) /\ ~SameDate(t, i - 1)
        /\ i + 1 \in Pairs(t) /\ ~SameDate(t, i + 1)
        /\ PointsIn(t, type_df[t][i + 1].Date, type_df[t][i + 2].Date) # <<>>

(***************************************************************************)
(* C7: calculate_annual_costs returns None, for the current and for the    *)
(* comparison plan alike, exactly when the observed span is zero days; it  *)
(* never divides a usage delta by a zero day count; and when the span is   *)
(* positive it returns a full cost breakdown for both plans.               *)
(***************************************************************************)
ObservedSpan ==
    SetMax({ r.Date : r \in uploaded_file }) - SetMin({ r.Date : r \in uploaded_file })

BreakdownKeys ==
    {"anytime_usage", "cl_usage", "solar_usage", "anytime_cost", "cl_cost",
     "solar_credit", "supply_cost", "total_cost", "days_in_data"}

FullBreakdown(calc) ==
    /\ DOMAIN calc = BreakdownKeys
    /\ calc.days_in_data = ObservedSpan
    /\ \A k \in BreakdownKeys \ {"days_in_data"} : IsFinite(calc[k])

C7_ZeroObservedSpan ==
    uploaded_file # {} =>
        /\ (current_calc = None) <=> (ObservedSpan = 0)
        /\ (comp_calc = None) <=> (ObservedSpan = 0)
        /\ "annual_usage" \notin zero_div
        /\ ObservedSpan > 0 =>
              FullBreakdown(current_calc) /\ FullBreakdown(comp_calc)

\* two readings of a type, all rows on one date: no result for either plan
C7_Witness ==
    /\ uploaded_file # {}
    /\ ObservedSpan = 0
    /\ \E t \in Types : Len(type_df[t]) >= 2
    /\ current_calc = None
    /\ comp_calc = None

(***************************************************************************)
(* C8: the day count on each (month, type) row of monthly_total is the     *)
(* number of distinct dates of that month with a daily usage point of any  *)
(* type; it is at least 1 and at most the calendar length of the month;    *)
(* and the month's supply cost is (supply_daily_charge +                   *)
(* controlled_load_supply_daily_charge) * that count, charged once for the *)
(* month however many types have data in it.  The charges are those of     *)
(* the plan the monthly computation is given.                              *)
(***************************************************************************)
MonthDates(m) ==
    { daily_usage_data[k].Date :
        k \in { j \in 1..Len(daily_usage_data) :
                  YearMonth(daily_usage_data[j].Date) = m } }

DataMonths == { YearMonth(daily_usage_data[k].Date) : k \in 1..Len(daily_usage_data) }

C8_MonthlyDayCount ==
    /\ \A i \in 1..Len(monthly_total) :
          LET r == monthly_total[i]
          IN  /\ r.Days = Cardinality(MonthDates(r.Month))
              /\ r.Days >= 1
              /\ r.Days <= MonthLengths[r.Month]
    /\ { month_calc[i].Month : i \in 1..Len(month_calc) } = DataMonths
    /\ Len(month_calc) = Cardinality(DataMonths)
    /\ \A i \in 1..Len(month_calc) :
          LET c == month_calc[i]
              supply == RMul(RAdd(current_plan.supply_daily_charge,
                                  current_plan.controlled_load_supply_daily_charge),
                             Num(Cardinality(MonthDates(c.Month))))
          IN  /\ c.supply_cost = supply
              /\ RSub(c.total_cost,
                      RSub(RAdd(c.anytime_cost, c.cl_cost), c.solar_credit)) = supply

\* two types with data in a month every day of which has a point
C8_Witness ==
    \E i, j \in 1..Len(monthly_total) :
        /\ monthly_total[i].Month = monthly_total[j].Month
        /\ monthly_total[i].Type # monthly_total[j].Type
        /\ monthly_total[i].Days = MonthLengths[monthly_total[i].Month]
        /\ \E d \in MonthDates(monthly_total[i].Month) :
              PointsIn(monthly_total[i].Type, d, d + 1) # <<>>
                  /\ PointsIn(monthly_total[j].Type, d, d + 1) # <<>>

(***************************************************************************)
(* C9: for every reading type with at least two readings, the sum of all   *)
(* its daily usage points, and the sum of its monthly totals, equal the    *)
(* value of its last reading minus the value of its first reading, also    *)
(* when two readings of the type share a date but differ in value.         *)
(***************************************************************************)
C9_WholeSeriesConservation ==
    \A t \in Types :
        LET tdf == type_df[t]
        IN  Len(tdf) >= 2 =>
               /\ RSum(Usages(PointsOf(t))) =
                      Num(tdf[Len(tdf)].Reading - tdf[1].Reading)
               /\ TypeMonthlyTotal(t) =
                      Num(tdf[Len(tdf)].Reading - tdf[1].Reading)

(***************************************************************************)
(* C10: after any sequence of edits to the current-plan tariff inputs,     *)
(* the per-month costs of a render are computed with the same current-plan *)
(* tariff values that the render uses for the annual current-plan cost.    *)
(***************************************************************************)
C10_TariffConsistency ==
    \A i \in 1..Len(month_calc) :
        LET c == month_calc[i]
        IN  /\ c.anytime_cost =
                  RMul(c.anytime_usage, RDiv(current_inputs.anytime_rate, Num(100)))
            /\ c.cl_cost =
                  RMul(c.cl_usage, RDiv(current_inputs.controlled_load_rate, Num(100)))
            /\ c.solar_credit =
                  RMul(c.solar_usage, RDiv(current_inputs.solar_feed_in, Num(100)))
            /\ c.supply_cost =
                  RMul(RAdd(current_inputs.supply_daily_charge,
                            current_inputs.controlled_load_supply_daily_charge),
                       Num(c.days_in_month))

(***************************************************************************)
(* C11: whenever calculate_annual_costs returns a result and the annual    *)
(* comparison is rendered, the divisor of savings / total_cost * 100, the  *)
(* current plan's total cost, is not zero, for every dataset and every     *)
(* combination of current-plan tariff inputs.                              *)
(***************************************************************************)
C11_PercentageDefined ==
    HasResult(current_calc) =>
        /\ current_calc.total_cost # Zero
        /\ "percentage" \notin zero_div
        /\ IsFinite(difference.percentage)

=============================================================================
